---------------------------- MODULE Spec2Model ----------------------------
(***************************************************************************)
(* Model of src-tauri/src/lib.rs of ClipJourney: the command handlers      *)
(* generate_timeline_thumbnails, generate_thumbnail, read_image_as_base64  *)
(* and exclude_file, together with the parts of the operating system they  *)
(* act on (the temp directory, the wall clock, the external prober and     *)
(* transcoder, the file tree).                                             *)
(***************************************************************************)
EXTENDS Integers, Sequences, FiniteSets, TLC

(***************************************************************************)
(* Bounds of the model.                                                    *)
(***************************************************************************)
\* largest count an invocation is called with
MaxCount == 2
\* last second the wall clock reaches
MaxClock == 1
\* width of the significand of the scaled-down binary floating-point format
\* standing for f64 (f64 has 53)
Precision == 4
\* number of binades above the lowest one in the scaled-down format
MaxExp == 3

Procs == {1, 2}

(***************************************************************************)
(* f64, scaled down.  A non-negative finite value is a natural number k    *)
(* standing for k * (smallest subnormal).  The representable values are    *)
(* the k < 2^Precision (subnormals and the lowest normal binade, spacing   *)
(* 1) and m * 2^e with 2^(Precision-1) <= m < 2^Precision, 1 <= e <=       *)
(* MaxExp.  Arithmetic rounds to nearest, ties to even, as IEEE 754 does.  *)
(***************************************************************************)
Inf == -1
NaN == -2

RECURSIVE Pow2(_)
Pow2(n) == IF n = 0 THEN 1 ELSE 2 * Pow2(n - 1)

MaxFinite == (Pow2(Precision) - 1) * Pow2(MaxExp)
MinNormal == Pow2(Precision - 1)

IsFinite(x) == x >= 0

Representable(k) ==
    \/ k < Pow2(Precision)
    \/ \E e \in 1..MaxExp : \E m \in Pow2(Precision - 1)..(Pow2(Precision) - 1) :
          k = m * Pow2(e)

Floats == {k \in 0..MaxFinite : Representable(k)}

\* a / b rounded to an integer, ties to even
RoundHalfEven(a, b) ==
    LET f == a \div b
        r == a % b
    IN  IF 2 * r < b THEN f
        ELSE IF 2 * r > b THEN f + 1
        ELSE IF f % 2 = 0 THEN f ELSE f + 1

\* the binade of the exact quotient a / b: the least e with a / b < 2^(Precision+e)
RECURSIVE Binade(_, _, _)
Binade(a, b, e) ==
    IF a < Pow2(Precision + e) * b THEN e ELSE Binade(a, b, e + 1)

\* the exact rational a / b rounded to the format
RoundToFormat(a, b) ==
    LET e == Binade(a, b, 0)
        k == RoundHalfEven(a, b * Pow2(e)) * Pow2(e)
    IN  IF k > MaxFinite THEN Inf ELSE k

\* duration / (count as f64)
FDiv(d, n) ==
    IF d = NaN THEN NaN
    ELSE IF n = 0 THEN (IF d = 0 THEN NaN ELSE Inf)
    ELSE IF d = Inf THEN Inf
    ELSE RoundToFormat(d, n)

\* i as f64 * interval
FMul(n, x) ==
    IF x = NaN THEN NaN
    ELSE IF x = Inf THEN (IF n = 0 THEN NaN ELSE Inf)
    ELSE RoundToFormat(n * x, 1)

\* x < y on f64: every comparison with NaN is false
FLess(x, y) ==
    /\ x # NaN /\ y # NaN
    /\ x # Inf
    /\ (y = Inf \/ x < y)

Interval(duration, cnt) == FDiv(duration, cnt)

TimestampBad(idx, interval) == FMul(idx + 1, interval)

Timestamp(idx, interval) == FMul(idx, interval)

(***************************************************************************)
(* base64, standard alphabet with padding.  Bytes are 0..255; the result   *)
(* is the sequence of alphabet indices 0..63, with 64 for '='.             *)
(***************************************************************************)
Pad == 64

RECURSIVE Base64Encode(_)
Base64Encode(bytes) ==
    IF Len(bytes) = 0 THEN <<>>
    ELSE IF Len(bytes) = 1 THEN
        << bytes[1] \div 4, (bytes[1] % 4) * 16, Pad, Pad >>
    ELSE IF Len(bytes) = 2 THEN
        << bytes[1] \div 4, (bytes[1] % 4) * 16 + bytes[2] \div 16,
           (bytes[2] % 16) * 4, Pad >>
    ELSE
        << bytes[1] \div 4, (bytes[1] % 4) * 16 + bytes[2] \div 16,
           (bytes[2] % 16) * 4 + bytes[3] \div 64, bytes[3] % 64 >>
        \o Base64Encode(SubSeq(bytes, 4, Len(bytes)))

\* format!("data:{};base64,{}", mime_type, base64_image)
DataUri(mime, bytes) == [mime |-> mime, base64 |-> Base64Encode(bytes)]

(***************************************************************************)
(* State.                                                                  *)
(***************************************************************************)
VARIABLES
    clock,        \* SystemTime::now() since UNIX_EPOCH, in whole seconds
    tempfs,       \* the files of std::env::temp_dir(): file name -> bytes
    tempUtf8,     \* whether the temp directory's path is valid UTF-8
    videoDur,     \* the duration the prober reports for the video
    procs,        \* the invocations that take place
    pc,           \* where each invocation is
    cmd,          \* which command each invocation runs
    count,        \* generate_timeline_thumbnails: count
    interval,     \* generate_timeline_thumbnails: interval
    i,            \* generate_timeline_thumbnails: loop index
    temp_path,    \* the temp file name of the attempt in progress
    image_data,   \* generate_thumbnail: image_data
    thumbnails,   \* generate_timeline_thumbnails: thumbnails
    result,       \* what the call returned
    hist,         \* per invocation: what it has done so far (observation only)
    image_path,   \* read_image_as_base64: image_path
    imageFile,    \* the bytes of the file at image_path, or NoFile
    imageResult,  \* what read_image_as_base64 returned
    tree,         \* the file tree exclude_file acts on: path -> "dir" or file content
    envOps,       \* number of changes made to the tree from outside
    calls,        \* number of exclude_file calls made
    file_path,    \* exclude_file: file_path of the call that just returned
    before,       \* the tree as it was when that call started
    excluded,     \* what that call returned
    movedAway,    \* paths moved by a successful call and not created again since
    repeated      \* the last call was made on a path of movedAway

imgVars == << image_path, imageFile, imageResult >>
exVars == << tree, envOps, calls, file_path, before, excluded, movedAway, repeated >>

tlVars == << clock, tempfs, tempUtf8, videoDur, procs, pc, cmd, count, interval,
             i, temp_path, image_data, thumbnails, result, hist >>

vars == << tlVars, imgVars, exVars >>

NoResult == [kind |-> "none"]
Ok(v) == [kind |-> "Ok", value |-> v]
Err(msg) == [kind |-> "Err", msg |-> msg]

NoPath == << >>
NoFile == << -1 >>

NoHist == [probes |-> 0,        \* prober launches
           probeOk |-> FALSE,   \* the prober ran and printed a decimal number
           launchFailed |-> FALSE, \* the transcoder could not be launched
           attempts |-> 0,      \* transcoder launches (attempted)
           stamps |-> << >>,    \* the timestamp of every attempt
           idx |-> << >>,       \* for every entry of thumbnails, the index it was read at
           failed |-> {},       \* indices whose attempt exited nonzero or could not be read
           used |-> {}]         \* temp file names chosen

\* the frame the transcoder decodes for invocation p at index n
Frame(p, n) == << p, n >>

InitTimeline(ps, durs) ==
    /\ clock = 0
    /\ tempfs = << >>
    /\ tempUtf8 \in BOOLEAN
    /\ videoDur \in durs
    /\ procs = ps
    /\ pc = [p \in Procs |-> "idle"]
    /\ cmd = [p \in Procs |-> "none"]
    /\ count = [p \in Procs |-> 0]
    /\ interval = [p \in Procs |-> 0]
    /\ i = [p \in Procs |-> 0]
    /\ temp_path = [p \in Procs |-> NoPath]
    /\ image_data = [p \in Procs |-> << >>]
    /\ thumbnails = [p \in Procs |-> << >>]
    /\ result = [p \in Procs |-> NoResult]
    /\ hist = [p \in Procs |-> NoHist]
    /\ image_path = << >> /\ imageFile = NoFile /\ imageResult = NoResult
    /\ tree = << >> /\ envOps = 0 /\ calls = 0 /\ file_path = << >>
    /\ before = << >> /\ excluded = NoResult /\ movedAway = {} /\ repeated = FALSE

Exists(name) == name \in DOMAIN tempfs

WriteFile(fs, name, bytes) ==
    [n \in DOMAIN fs \cup {name} |-> IF n = name THEN bytes ELSE fs[n]]

RemoveFile(fs, name) == [n \in DOMAIN fs \ {name} |-> fs[n]]

\* the wall clock advances
Tick ==
    /\ clock < MaxClock
    /\ clock' = clock + 1
    /\ UNCHANGED << imgVars, exVars, tempfs, tempUtf8, videoDur, procs, pc, cmd, count, interval,
                    i, temp_path, image_data, thumbnails, result, hist >>


(***************************************************************************)
(* The external tools.                                                     *)
(***************************************************************************)
\* what the prober may print on stdout for a video of duration d: the
\* duration as decimal text, "N/A" (no duration in the container), or
\* nothing (the prober exited with an error)
ProberStdout(d) == {[text |-> "decimal", value |-> d], [text |-> "N/A"], [text |-> ""]}

ParseDurationLenient(stdout) ==
    IF stdout.text = "decimal" THEN Ok(stdout.value) ELSE Ok(0)

\* String::from_utf8_lossy(&stdout).trim().parse::<f64>()
ParseDuration(stdout) ==
    IF stdout.text = "decimal" THEN Ok(stdout.value)
    ELSE Err("Failed to parse duration")

\* how a launch of the transcoder may end
TranscoderOutcomes == {"launch_failed", "exit_nonzero", "exit_ok"}

(***************************************************************************)
(* generate_timeline_thumbnails                                            *)
(***************************************************************************)
\* the front end invokes a command
Call(p) ==
    /\ p \in procs
    /\ pc[p] = "idle"
    /\ \E c \in {"timeline", "thumbnail"} :
          /\ cmd' = [cmd EXCEPT ![p] = c]
          /\ IF c = "timeline"
             THEN /\ \E n \in 0..MaxCount : count' = [count EXCEPT ![p] = n]
                  /\ pc' = [pc EXCEPT ![p] = "probe"]
             ELSE /\ count' = count
                  /\ pc' = [pc EXCEPT ![p] = "t_path"]
    /\ UNCHANGED << imgVars, exVars, clock, tempfs, tempUtf8, videoDur, procs, interval, i,
                    temp_path, image_data, thumbnails, result, hist >>

\* run ffprobe, parse the duration, compute the interval
Probe(p) ==
    /\ pc[p] = "probe"
    /\ \E launched \in BOOLEAN :
          IF ~launched
          THEN /\ result' = [result EXCEPT ![p] = Err("Failed to get duration")]
               /\ pc' = [pc EXCEPT ![p] = "done"]
               /\ hist' = [hist EXCEPT ![p].probes = @ + 1]
               /\ UNCHANGED << interval, i >>
          ELSE \E stdout \in ProberStdout(videoDur) :
                 LET duration == ParseDuration(stdout) IN
                 /\ hist' = [hist EXCEPT ![p].probes = @ + 1,
                                         ![p].probeOk = (stdout.text = "decimal")]
                 /\ IF duration.kind = "Err"
                    THEN /\ result' = [result EXCEPT ![p] = duration]
                         /\ pc' = [pc EXCEPT ![p] = "done"]
                         /\ UNCHANGED << interval, i >>
                    ELSE /\ interval' = [interval EXCEPT
                                           ![p] = Interval(duration.value, count[p])]
                         /\ i' = [i EXCEPT ![p] = 0]
                         /\ pc' = [pc EXCEPT ![p] = "loop"]
                         /\ UNCHANGED result
    /\ UNCHANGED << imgVars, exVars, clock, tempfs, tempUtf8, videoDur, procs, cmd, count,
                    temp_path, image_data, thumbnails >>

\* format!("timeline_thumb_{}_{}.jpg", now.as_secs(), i)
TimelineTempName(secs, idx) == << "timeline_thumb", secs, idx >>

\* for i in 0..count: the timestamp and the temp path of attempt i, or the
\* return of the collected thumbnails
LoopHead(p) ==
    /\ pc[p] = "loop"
    /\ IF i[p] < count[p]
       THEN IF tempUtf8
            THEN /\ temp_path' = [temp_path EXCEPT ![p] = TimelineTempName(clock, i[p])]
                 /\ pc' = [pc EXCEPT ![p] = "ffmpeg"]
                 /\ hist' = [hist EXCEPT
                       ![p].stamps = Append(@, Timestamp(i[p], interval[p])),
                       ![p].used = @ \cup {TimelineTempName(clock, i[p])}]
                 /\ UNCHANGED result
            ELSE /\ result' = [result EXCEPT ![p] = Err("Invalid temp path")]
                 /\ pc' = [pc EXCEPT ![p] = "done"]
                 /\ UNCHANGED << temp_path, hist >>
       ELSE /\ result' = [result EXCEPT ![p] = Ok(thumbnails[p])]
            /\ pc' = [pc EXCEPT ![p] = "done"]
            /\ UNCHANGED << temp_path, hist >>
    /\ UNCHANGED << imgVars, exVars, clock, tempfs, tempUtf8, videoDur, procs, cmd, count,
                    interval, i, image_data, thumbnails >>

\* a variant of Ffmpeg in which a nonzero exit ends the call with an error
FfmpegFatal(p) ==
    /\ pc[p] = "ffmpeg"
    /\ \E outcome \in TranscoderOutcomes, written \in BOOLEAN :
          /\ tempfs' = IF outcome # "launch_failed" /\ written
                       THEN WriteFile(tempfs, temp_path[p], Frame(p, i[p]))
                       ELSE tempfs
          /\ hist' = [hist EXCEPT
                ![p].attempts = @ + 1,
                ![p].launchFailed = (outcome = "launch_failed"),
                ![p].failed = IF outcome = "exit_nonzero" THEN @ \cup {i[p]} ELSE @]
          /\ IF outcome = "launch_failed"
             THEN /\ result' = [result EXCEPT ![p] = Err("Failed to generate thumbnail")]
                  /\ pc' = [pc EXCEPT ![p] = "done"]
             ELSE IF outcome = "exit_nonzero"
             THEN /\ result' = [result EXCEPT ![p] = Err("FFmpeg error")]
                  /\ pc' = [pc EXCEPT ![p] = "done"]
             ELSE /\ pc' = [pc EXCEPT ![p] = "read"]
                  /\ UNCHANGED result
          /\ UNCHANGED i
    /\ UNCHANGED << imgVars, exVars, clock, tempUtf8, videoDur, procs, cmd, count, interval,
                    temp_path, image_data, thumbnails >>

\* run ffmpeg for attempt i; a nonzero exit skips to the next index.  The
\* transcoder is a black box: whatever "-ss {:.2}" it is given, it may fail to
\* launch, exit nonzero or exit 0, and in the last two cases it may or may
\* not have written the output file ("-y" overwrites an existing one).
Ffmpeg(p) ==
    /\ pc[p] = "ffmpeg"
    /\ \E outcome \in TranscoderOutcomes, written \in BOOLEAN :
          /\ tempfs' = IF outcome # "launch_failed" /\ written
                       THEN WriteFile(tempfs, temp_path[p], Frame(p, i[p]))
                       ELSE tempfs
          /\ hist' = [hist EXCEPT
                ![p].attempts = @ + 1,
                ![p].launchFailed = (outcome = "launch_failed"),
                ![p].failed = IF outcome = "exit_nonzero" THEN @ \cup {i[p]} ELSE @]
          /\ IF outcome = "launch_failed"
             THEN /\ result' = [result EXCEPT ![p] = Err("Failed to generate thumbnail")]
                  /\ pc' = [pc EXCEPT ![p] = "done"]
                  /\ UNCHANGED i
             ELSE IF outcome = "exit_nonzero"
             THEN /\ i' = [i EXCEPT ![p] = @ + 1]
                  /\ pc' = [pc EXCEPT ![p] = "loop"]
                  /\ UNCHANGED result
             ELSE /\ pc' = [pc EXCEPT ![p] = "read"]
                  /\ UNCHANGED << result, i >>
    /\ UNCHANGED << imgVars, exVars, clock, tempUtf8, videoDur, procs, cmd, count, interval,
                    temp_path, image_data, thumbnails >>

PushIfReadPlaceholder(thumbs, fs, name) ==
    IF name \in DOMAIN fs
    THEN Append(thumbs, DataUri("image/jpeg", fs[name]))
    ELSE Append(thumbs, DataUri("image/jpeg", << >>))

\* if let Ok(image_data) = fs::read(temp_path) { thumbnails.push(...) }
PushIfRead(thumbs, fs, name) ==
    IF name \in DOMAIN fs
    THEN Append(thumbs, DataUri("image/jpeg", fs[name]))
    ELSE thumbs

\* read the temp file and collect it
Read(p) ==
    /\ pc[p] = "read"
    /\ thumbnails' = [thumbnails EXCEPT ![p] = PushIfRead(@, tempfs, temp_path[p])]
    /\ hist' = [hist EXCEPT
          ![p].idx = IF Len(thumbnails'[p]) > Len(thumbnails[p])
                     THEN Append(@, i[p]) ELSE @,
          ![p].failed = IF Exists(temp_path[p]) THEN @ ELSE @ \cup {i[p]}]
    /\ pc' = [pc EXCEPT ![p] = "remove"]
    /\ UNCHANGED << imgVars, exVars, clock, tempfs, tempUtf8, videoDur, procs, cmd, count,
                    interval, i, temp_path, image_data, result >>

\* let _ = fs::remove_file(temp_path), then the next index
Remove(p) ==
    /\ pc[p] = "remove"
    /\ tempfs' = RemoveFile(tempfs, temp_path[p])
    /\ i' = [i EXCEPT ![p] = @ + 1]
    /\ pc' = [pc EXCEPT ![p] = "loop"]
    /\ UNCHANGED << imgVars, exVars, clock, tempUtf8, videoDur, procs, cmd, count, interval,
                    temp_path, image_data, thumbnails, result, hist >>

(***************************************************************************)
(* generate_thumbnail                                                      *)
(***************************************************************************)
\* format!("thumb_{}.jpg", now.as_secs())
ThumbTempName(secs) == << "thumb", secs >>

ThumbPath(p) ==
    /\ pc[p] = "t_path"
    /\ IF tempUtf8
       THEN /\ temp_path' = [temp_path EXCEPT ![p] = ThumbTempName(clock)]
            /\ pc' = [pc EXCEPT ![p] = "t_ffmpeg"]
            /\ hist' = [hist EXCEPT ![p].used = @ \cup {ThumbTempName(clock)}]
            /\ UNCHANGED result
       ELSE /\ result' = [result EXCEPT ![p] = Err("Invalid temp path")]
            /\ pc' = [pc EXCEPT ![p] = "done"]
            /\ UNCHANGED << temp_path, hist >>
    /\ UNCHANGED << imgVars, exVars, clock, tempfs, tempUtf8, videoDur, procs, cmd, count,
                    interval, i, image_data, thumbnails >>

ThumbFfmpeg(p) ==
    /\ pc[p] = "t_ffmpeg"
    /\ \E outcome \in TranscoderOutcomes, written \in BOOLEAN :
          /\ tempfs' = IF outcome # "launch_failed" /\ written
                       THEN WriteFile(tempfs, temp_path[p], Frame(p, 255))
                       ELSE tempfs
          /\ hist' = [hist EXCEPT
                ![p].attempts = @ + 1]
          /\ IF outcome = "launch_failed"
             THEN /\ result' = [result EXCEPT ![p] = Err("Failed to execute ffmpeg")]
                  /\ pc' = [pc EXCEPT ![p] = "done"]
             ELSE IF outcome = "exit_nonzero"
             THEN /\ result' = [result EXCEPT ![p] = Err("FFmpeg error")]
                  /\ pc' = [pc EXCEPT ![p] = "done"]
             ELSE /\ pc' = [pc EXCEPT ![p] = "t_read"]
                  /\ UNCHANGED result
    /\ UNCHANGED << imgVars, exVars, clock, tempUtf8, videoDur, procs, cmd, count, interval, i,
                    temp_path, image_data, thumbnails >>

ThumbRead(p) ==
    /\ pc[p] = "t_read"
    /\ IF Exists(temp_path[p])
       THEN /\ image_data' = [image_data EXCEPT ![p] = tempfs[temp_path[p]]]
            /\ pc' = [pc EXCEPT ![p] = "t_remove"]
            /\ UNCHANGED result
       ELSE /\ result' = [result EXCEPT ![p] = Err("Failed to read thumbnail")]
            /\ pc' = [pc EXCEPT ![p] = "done"]
            /\ UNCHANGED image_data
    /\ UNCHANGED << imgVars, exVars, clock, tempfs, tempUtf8, videoDur, procs, cmd, count,
                    interval, i, temp_path, thumbnails, hist >>

ThumbRemove(p) ==
    /\ pc[p] = "t_remove"
    /\ tempfs' = RemoveFile(tempfs, temp_path[p])
    /\ result' = [result EXCEPT ![p] = Ok(DataUri("image/jpeg", image_data[p]))]
    /\ pc' = [pc EXCEPT ![p] = "done"]
    /\ UNCHANGED << imgVars, exVars, clock, tempUtf8, videoDur, procs, cmd, count, interval, i,
                    temp_path, image_data, thumbnails, hist >>

NextTimeline ==
    \/ Tick
    \/ \E p \in Procs : Call(p)
    \/ \E p \in Procs : Probe(p)
    \/ \E p \in Procs : LoopHead(p)
    \/ \E p \in Procs : Ffmpeg(p)
    \/ \E p \in Procs : Read(p)
    \/ \E p \in Procs : Remove(p)
    \/ \E p \in Procs : ThumbPath(p)
    \/ \E p \in Procs : ThumbFfmpeg(p)
    \/ \E p \in Procs : ThumbRead(p)
    \/ \E p \in Procs : ThumbRemove(p)

\* duration of the video in the runs with two invocations
SomeDurations == {12}

\* two invocations sharing the temp directory and the clock
Init == InitTimeline(Procs, SomeDurations)
Spec == Init /\ [][NextTimeline]_vars

\* one invocation, the video's duration any value of the format or infinite
InitSched == InitTimeline({1}, Floats \cup {Inf})
SpecSched == InitSched /\ [][NextTimeline]_vars

(***************************************************************************)
(* Properties of generate_timeline_thumbnails.                             *)
(***************************************************************************)
Timeline(p) == p \in procs /\ cmd[p] = "timeline"

Returned(p) == pc[p] = "done"

StrictlyIncreasing(seq) ==
    \A j \in 1..Len(seq), k \in 1..Len(seq) : j < k => seq[j] < seq[k]

\* C1: a successful call with count N >= 1 in which K attempts failed (the
\* transcoder exited nonzero or the temp file could not be read) returns
\* exactly N - K entries, read at increasing indices, none of them at a
\* failed index.
C1_FailedAttemptsAreSkipped ==
    \A p \in Procs :
        (Timeline(p) /\ Returned(p) /\ result[p].kind = "Ok" /\ count[p] >= 1) =>
            /\ Len(result[p].value) = count[p] - Cardinality(hist[p].failed)
            /\ Len(hist[p].idx) = Len(result[p].value)
            /\ StrictlyIncreasing(hist[p].idx)
            /\ \A k \in 1..Len(hist[p].idx) : hist[p].idx[k] \notin hist[p].failed

\* a call of count 2 returned one entry: the attempt at index 0 failed, the
\* one at index 1 was read
C1_Witness ==
    \E p \in Procs :
        /\ Timeline(p) /\ Returned(p) /\ result[p].kind = "Ok"
        /\ count[p] = 2
        /\ hist[p].failed = {0}
        /\ hist[p].idx = << 1 >>

\* C2: between attempts and after the call no temp file name the invocation
\* used exists in the temp directory.
C2_TempFileRemovedAfterAttempt ==
    \A p \in Procs :
        (Timeline(p) /\ pc[p] \in {"loop", "done"}) =>
            \A name \in hist[p].used : ~Exists(name)

\* C3: a call with count = 0 runs neither the prober nor the transcoder and
\* returns an InvalidArgument error.
C3_ZeroCountIsRejected ==
    \A p \in Procs :
        (Timeline(p) /\ count[p] = 0) =>
            /\ hist[p].probes = 0
            /\ hist[p].attempts = 0
            /\ Returned(p) => result[p] = Err("InvalidArgument")

\* the prober has run without printing a decimal number, or could not be launched
ProbeFailed(p) == hist[p].probes > 0 /\ ~hist[p].probeOk

\* C4: when the duration probe fails, the call returns an error, the
\* transcoder is never launched and no temp file is chosen or written.
C4_FailedProbeAborts ==
    \A p \in Procs :
        (Timeline(p) /\ ProbeFailed(p)) =>
            /\ Returned(p) /\ result[p].kind = "Err"
            /\ hist[p].attempts = 0
            /\ hist[p].used = {}
            /\ \A name \in DOMAIN tempfs : tempfs[name] \notin {Frame(p, n) : n \in 0..255}

\* the prober ran and printed no number; the call has returned
C4_Witness ==
    \E p \in Procs :
        /\ Timeline(p) /\ ProbeFailed(p) /\ Returned(p)
        /\ count[p] >= 1
        /\ result[p] = Err("Failed to parse duration")

SchedulePerfect(stamps, N, D) ==
    /\ Len(stamps) = N
    /\ stamps[1] = 0
    /\ \A j \in 1..N, k \in 1..N : j < k => FLess(stamps[j], stamps[k])
    /\ FLess(stamps[N], D)

\* C6 as stated: for every N >= 1 and (finite) D >= 0 the N timestamps start
\* at 0 and are strictly increasing with the last below D when D > 0, and
\* are all 0 when D = 0.
C6_TimestampsStrictlyIncreasing ==
    \A p \in Procs :
        (Timeline(p) /\ Returned(p) /\ result[p].kind = "Ok" /\ count[p] >= 1
            /\ IsFinite(videoDur)) =>
            IF videoDur = 0
            THEN hist[p].stamps = [k \in 1..count[p] |-> 0]
            ELSE SchedulePerfect(hist[p].stamps, count[p], videoDur)

\* C6 amended: for every N >= 1 and finite D >= 0 there are exactly N
\* timestamps, the first is 0 and they never decrease; they are all 0 when
\* D = 0; and when the interval D / N is a normal number (the division does
\* not underflow) they are strictly increasing and the last is below D.
C6_TimestampsWhenNoUnderflow ==
    \A p \in Procs :
        (Timeline(p) /\ Returned(p) /\ result[p].kind = "Ok" /\ count[p] >= 1
            /\ IsFinite(videoDur)) =>
            LET stamps == hist[p].stamps IN
            /\ Len(stamps) = count[p]
            /\ stamps[1] = 0
            /\ \A j \in 1..Len(stamps), k \in 1..Len(stamps) :
                  j < k => ~FLess(stamps[k], stamps[j]) /\ stamps[k] # NaN
            /\ videoDur = 0 => stamps = [k \in 1..count[p] |-> 0]
            /\ interval[p] >= MinNormal =>
                  SchedulePerfect(stamps, count[p], videoDur)

\* a completed call of the largest count whose interval is a normal number
\* that the division had to round
C6_Witness ==
    \E p \in Procs :
        /\ Timeline(p) /\ Returned(p) /\ result[p].kind = "Ok"
        /\ count[p] = MaxCount
        /\ IsFinite(videoDur)
        /\ interval[p] >= MinNormal
        /\ interval[p] * count[p] # videoDur
        /\ Len(hist[p].stamps) = count[p]

\* C7: no two invocations ever choose the same temp file name.
C7_TempNamesNeverCollide ==
    \A p \in Procs, q \in Procs :
        p # q => hist[p].used \cap hist[q].used = {}

(***************************************************************************)
(* read_image_as_base64.  A path is a sequence of tokens: "." and "/" are  *)
(* the characters, every other token is a run of characters holding        *)
(* neither; two runs are never adjacent.                                   *)
(***************************************************************************)
\* longest path, in tokens
MaxPathLen == 4

Words == {"png", "PNG", "gif", "bmp", "webp", "jpg", "clip"}
Tokens == Words \cup {".", "/"}

\* char::to_lowercase over a run
Lower(w) == IF w = "PNG" THEN "png" ELSE w

RECURSIVE SeqsUpTo(_, _)
SeqsUpTo(S, n) ==
    IF n = 0 THEN {<< >>}
    ELSE LET shorter == SeqsUpTo(S, n - 1)
         IN  shorter \cup {Append(q, x) : q \in {r \in shorter : Len(r) = n - 1}, x \in S}

\* the tokens after the last "/" of a path
LastComponent(path) ==
    LET slashes == {k \in 1..Len(path) : path[k] = "/"}
        from == IF slashes = {} THEN 1
                ELSE 1 + CHOOSE k \in slashes : \A m \in slashes : m <= k
    IN  SubSeq(path, from, Len(path))

\* paths that can name a regular file: a last component other than "", "." and ".."
ImagePaths ==
    {path \in SeqsUpTo(Tokens, MaxPathLen) :
        /\ \A k \in 1..(Len(path) - 1) : ~(path[k] \in Words /\ path[k + 1] \in Words)
        /\ LastComponent(path) \notin {<< >>, << "." >>, << ".", "." >>}}

ImageBytes == {<< >>, << 255, 216, 255 >>, << 137, 80 >>}

\* image_path.split('.').last(), which is the whole path when it holds no '.'
SplitDotLast(path) ==
    LET dots == {k \in 1..Len(path) : path[k] = "."}
        from == IF dots = {} THEN 1
                ELSE 1 + CHOOSE k \in dots : \A m \in dots : m <= k
    IN  SubSeq(path, from, Len(path))

ToLowercase(run) == [k \in 1..Len(run) |-> Lower(run[k])]

\* match ext.as_str() { "png" => ..., _ => "image/jpeg" }
MimeOf(ext) ==
    IF ext = << "png" >> THEN "image/png"
    ELSE IF ext = << "gif" >> THEN "image/gif"
    ELSE IF ext = << "bmp" >> THEN "image/bmp"
    ELSE IF ext = << "webp" >> THEN "image/webp"
    ELSE "image/jpeg"

InitImage ==
    /\ InitTimeline({}, {0})
    /\ tempUtf8 = TRUE

\* the front end asks for an image
ChooseImage ==
    /\ imageResult = NoResult
    /\ image_path = << >>
    /\ image_path' \in ImagePaths
    /\ imageFile' \in ImageBytes \cup {NoFile}
    /\ UNCHANGED << imageResult, tlVars, exVars >>

ReadImageAsBase64 ==
    /\ image_path # << >>
    /\ imageResult = NoResult
    /\ IF imageFile = NoFile
       THEN imageResult' = Err("Failed to read image")
       ELSE LET ext == ToLowercase(SplitDotLast(image_path))
                mime_type == MimeOf(ext)
            IN  imageResult' = Ok(DataUri(mime_type, imageFile))
    /\ UNCHANGED << image_path, imageFile, tlVars, exVars >>

NextImage ==
    \/ ChooseImage
    \/ ReadImageAsBase64

SpecImage == InitImage /\ [][NextImage]_vars

\* the extension of a path's file name: the text after the last '.' of the
\* last component, none when the last component holds no '.'
FileExtension(path) ==
    LET name == LastComponent(path)
    IN  IF \E k \in 1..Len(name) : name[k] = "."
        THEN ToLowercase(SplitDotLast(name))
        ELSE << >>

\* C9: the MIME type of every image read is the table's entry for the
\* extension of the path's file name, image/jpeg when there is none.
C9_MimeFollowsExtension ==
    imageResult.kind = "Ok" =>
        imageResult.value.mime = MimeOf(FileExtension(image_path))

(***************************************************************************)
(* exclude_file.  A path is the sequence of its components, relative to    *)
(* the working directory; the tree maps every existing path to "dir" or to *)
(* the content of the regular file there.                                  *)
(***************************************************************************)
\* changes made to the tree from outside
MaxEnvOps == 3
\* exclude_file calls made
MaxCalls == 2

Names == {"d", "v", "Excluded"}
Contents == {"A", "B"}

\* the paths the front end may pass: "", "v", "d/v", "..", "d/.."
ArgPaths ==
    SeqsUpTo(Names, 2) \cup {Append(q, "..") : q \in SeqsUpTo(Names, 1)}

IsPrefix(a, b) == Len(a) <= Len(b) /\ SubSeq(b, 1, Len(a)) = a

IsDir(t, path) == path = << >> \/ (path \in DOMAIN t /\ t[path] = "dir")
IsFile(t, path) == path \in DOMAIN t /\ t[path] # "dir"

\* Path::parent: None (here FALSE) for the empty path
HasParent(path) == Len(path) > 0
Parent(path) == SubSeq(path, 1, Len(path) - 1)

\* Path::file_name: None (here FALSE) when the path ends in ".."
HasFileName(path) == Len(path) > 0 /\ path[Len(path)] # ".."
FileName(path) == path[Len(path)]

Prefixes(path) == {SubSeq(path, 1, n) : n \in 1..Len(path)}

CreateDirAllClobber(t, path) ==
    [ok |-> TRUE,
     tree |-> [q \in {r \in DOMAIN t : \A f \in Prefixes(path) :
                          IsFile(t, f) => ~IsPrefix(f, r)} \cup Prefixes(path) |->
                  IF q \in Prefixes(path) THEN "dir" ELSE t[q]]]

\* fs::create_dir_all: makes every missing directory of the path; fails when
\* a component of the path is a regular file
CreateDirAll(t, path) ==
    IF \E q \in Prefixes(path) : IsFile(t, q)
    THEN [ok |-> FALSE, tree |-> t]
    ELSE [ok |-> TRUE,
          tree |-> [q \in DOMAIN t \cup Prefixes(path) |->
                       IF q \in DOMAIN t THEN t[q] ELSE "dir"]]

Subtree(t, path) == {q \in DOMAIN t : IsPrefix(path, q)}

\* the tree with everything at and below src moved to dst, replacing dst
MoveTree(t, src, dst) ==
    [q \in ((DOMAIN t \ Subtree(t, src)) \ Subtree(t, dst))
           \cup {dst \o SubSeq(r, Len(src) + 1, Len(r)) : r \in Subtree(t, src)} |->
        IF IsPrefix(dst, q)
        THEN t[src \o SubSeq(q, Len(dst) + 1, Len(q))]
        ELSE t[q]]

\* a rename that leaves the source in place
RenameCopy(t, src, dst) ==
    IF src \notin DOMAIN t \/ IsDir(t, dst) \/ ~IsFile(t, src)
    THEN [ok |-> FALSE, tree |-> t]
    ELSE [ok |-> TRUE,
          tree |-> [q \in DOMAIN t \cup {dst} |-> IF q = dst THEN t[src] ELSE t[q]]]

\* fs::rename with the semantics of rename(2): fails when the source is missing, when a file
\* would replace a directory or a directory a file, when a directory would
\* replace a directory that is not empty or move into itself
Rename(t, src, dst) ==
    IF \/ src \notin DOMAIN t
       \/ IsFile(t, src) /\ IsDir(t, dst)
       \/ IsDir(t, src) /\ IsFile(t, dst)
       \/ IsDir(t, src) /\ IsDir(t, dst) /\ Subtree(t, dst) # {dst}
       \/ IsDir(t, src) /\ IsPrefix(src, dst)
    THEN [ok |-> FALSE, tree |-> t]
    ELSE [ok |-> TRUE, tree |-> MoveTree(t, src, dst)]

\* parent.join("Excluded")
ExcludedFolder(path) == Append(Parent(path), "Excluded")
\* excluded_folder.join(filename)
NewPath(path) == Append(ExcludedFolder(path), FileName(path))

InitExclude ==
    /\ InitTimeline({}, {0})
    /\ tempUtf8 = TRUE

\* a file or a directory is created from outside; the result of the last
\* call has been consumed by then
EnvCreate ==
    /\ envOps < MaxEnvOps
    /\ \E path \in SeqsUpTo(Names, 2) \ {<< >>}, node \in Contents \cup {"dir"} :
          /\ path \notin DOMAIN tree
          /\ IsDir(tree, Parent(path))
          /\ tree' = [q \in DOMAIN tree \cup {path} |->
                        IF q = path THEN node ELSE tree[q]]
          /\ movedAway' = movedAway \ {path}
    /\ envOps' = envOps + 1
    /\ file_path' = << >> /\ before' = << >>
    /\ excluded' = NoResult /\ repeated' = FALSE
    /\ UNCHANGED << calls, tlVars, imgVars >>

ExcludeFile ==
    /\ calls < MaxCalls
    /\ calls' = calls + 1
    /\ \E path \in ArgPaths :
          /\ file_path' = path
          /\ before' = tree
          /\ repeated' = (path \in movedAway)
          /\ IF ~HasParent(path)
             THEN /\ excluded' = Err("No parent directory")
                  /\ tree' = tree
             ELSE IF ~HasFileName(path)
             THEN /\ excluded' = Err("No filename")
                  /\ tree' = tree
             ELSE LET excluded_folder == ExcludedFolder(path)
                      made == CreateDirAll(tree, excluded_folder)
                      new_path == Append(excluded_folder, FileName(path))
                      moved == Rename(made.tree, path, new_path)
                  IN  IF ~made.ok
                      THEN /\ excluded' = Err("Failed to create Excluded folder")
                           /\ tree' = made.tree
                      ELSE IF ~moved.ok
                      THEN /\ excluded' = Err("Failed to move file")
                           /\ tree' = moved.tree
                      ELSE /\ excluded' = Ok(new_path)
                           /\ tree' = moved.tree
          /\ movedAway' = (IF excluded'.kind = "Ok" THEN movedAway \cup {path}
                           ELSE movedAway) \ DOMAIN tree'
    /\ UNCHANGED << envOps, tlVars, imgVars >>

NextExclude ==
    \/ EnvCreate
    \/ ExcludeFile

SpecExclude == InitExclude /\ [][NextExclude]_vars

(***************************************************************************)
(* Properties of exclude_file, stated on the last call made: its argument  *)
(* file_path, the tree before it, the tree after it and what it returned.  *)
(***************************************************************************)
Called == excluded.kind # "none"

\* the call returned the new path, the file is there with its content, the
\* Excluded folder is a directory and the original path is gone
MovedToExcluded ==
    /\ excluded = Ok(NewPath(file_path))
    /\ IsDir(tree, ExcludedFolder(file_path))
    /\ IsFile(tree, NewPath(file_path))
    /\ tree[NewPath(file_path)] = before[file_path]
    /\ file_path \notin DOMAIN tree

\* the call failed and dir/Excluded/name is as it was
FailedLeavingTarget ==
    /\ excluded.kind = "Err"
    /\ excluded.msg \in {"Failed to move file", "Failed to create Excluded folder"}
    /\ LET target == NewPath(file_path)
       IN  IF target \in DOMAIN before
           THEN target \in DOMAIN tree /\ tree[target] = before[target]
           ELSE target \notin DOMAIN tree

\* C8 as stated: a call on an existing file moves it to dir/Excluded/name
\* and returns the new path; a second call on the same path, not created
\* again in between, fails and leaves dir/Excluded/name in place.
C8_ExcludeMovesThenFails ==
    Called =>
        /\ IsFile(before, file_path) => MovedToExcluded
        /\ repeated => FailedLeavingTarget

\* C8 amended: a call on an existing regular file dir/name moves it to
\* dir/Excluded/name and returns the new path, provided dir/Excluded is
\* absent or a directory and dir/Excluded/name is not a directory; a second
\* call on the same path, not created again in between, fails and leaves
\* dir/Excluded/name in place.
C8_ExcludeMovesWhenFolderUsable ==
    Called =>
        /\ (/\ IsFile(before, file_path)
            /\ ~IsFile(before, ExcludedFolder(file_path))
            /\ ~IsDir(before, NewPath(file_path))) => MovedToExcluded
        /\ repeated => FailedLeavingTarget

\* the second call on d/v, after the first moved it to d/Excluded/v
C8_Witness ==
    /\ calls = 2
    /\ repeated
    /\ file_path = << "d", "v" >>
    /\ excluded = Err("Failed to move file")
    /\ IsFile(tree, << "d", "Excluded", "v" >>)
    /\ << "d", "v" >> \notin DOMAIN tree

\* everything that existed before the call is still there, unchanged
NothingLost == \A q \in DOMAIN before : q \in DOMAIN tree /\ tree[q] = before[q]

Created == DOMAIN tree \ DOMAIN before

\* C10 as stated: a failed call loses and changes nothing, and creates at
\* most the Excluded directory.
C10_FailureCreatesOnlyExcluded ==
    (Called /\ excluded.kind = "Err") =>
        /\ NothingLost
        /\ Created \subseteq {ExcludedFolder(file_path)}
        /\ \A q \in Created : tree[q] = "dir"

\* C10 amended: a failed call loses and changes nothing, and creates at most
\* empty directories: the Excluded directory and the missing directories
\* above it.
C10_FailureCreatesOnlyDirectories ==
    (Called /\ excluded.kind = "Err") =>
        /\ NothingLost
        /\ Created \subseteq Prefixes(ExcludedFolder(file_path))
        /\ \A q \in Created : tree[q] = "dir"
        /\ excluded.msg \in {"No parent directory", "No filename",
                             "Failed to create Excluded folder"} => tree = before

\* a failed move of a file onto a directory, with a file in Excluded kept
C10_Witness ==
    /\ Called
    /\ excluded = Err("Failed to move file")
    /\ IsFile(before, file_path)
    /\ Created = {}
    /\ \E q \in DOMAIN before : IsFile(before, q) /\ IsPrefix(ExcludedFolder(file_path), q)

=============================================================================
